---- MODULE Spec2Model ----
(***************************************************************************)
(* A model of the permutation-invariant losses (torchchimera/losses.py)    *)
(* and of the MISI phase-reconstruction layers and the convolutional       *)
(* STFT/ISTFT pair (torchchimera/submodels.py).                             *)
(*                                                                         *)
(* Numbers.  Tensors hold floats; the model holds integers.  A real        *)
(* quantity q is held as the integer q * Scale where a square root or a    *)
(* logarithm is taken (fixed point, rounded down), and exactly otherwise.  *)
(* A complex number is the pair <<re, im>>, as in the code's trailing      *)
(* dimension of size 2.  Each channel of a loss input is one               *)
(* time-frequency bin (or one waveform sample), so torch.sum ranges over   *)
(* the channel axis.                                                       *)
(*                                                                         *)
(* Transforms.  MisiNetwork is built with n_fft = 2, hop_length = 1 and    *)
(* the trainable layers with n_fft = 4 (hop_length = 1): at these sizes    *)
(* the Hann window (doubled) and the DFT matrix are integers, so the       *)
(* transforms and the MISI layers are computed exactly.  The results of    *)
(* the inverse transforms are held multiplied by the divisor they apply.   *)
(***************************************************************************)
EXTENDS Integers, Sequences, FiniteSets, TLC

\* ------------------------------------------------------------- bounds
MaxB == 2        \* largest batch size of a loss call
MaxC == 2        \* largest channel count of a batched loss call
MatchC == 3      \* largest channel count of a loss call on one example
Scale == 10      \* fixed-point resolution: 1.0 is held as Scale

\* ------------------------------------------------------------ helpers
Abs(a) == IF a < 0 THEN 0 - a ELSE a
Max2(a, b) == IF a < b THEN b ELSE a
Min2(a, b) == IF b < a THEN b ELSE a

RECURSIVE isqrt_from(_, _)
isqrt_from(n, r) == IF (r + 1) * (r + 1) > n THEN r ELSE isqrt_from(n, r + 1)
\* the items of a sequence given as a function on 1..n, as a tuple
AsTuple(f) == f \o <<>>

\* floor of the square root of n * Scale * Scale, for the n the model meets
SqrtTable == [n \in 0..64 |-> isqrt_from(n * Scale * Scale, 0)]

RECURSIVE SeqSum(_)
SeqSum(s) == IF s = <<>> THEN 0 ELSE Head(s) + SeqSum(Tail(s))

\* ------------------------------------------------ itertools / builtins
RemoveAt(s, i) == SubSeq(s, 1, i - 1) \o SubSeq(s, i + 1, Len(s))

RECURSIVE permutations_from(_, _)
RECURSIVE permutations(_)
\* the permutations of s that start with s[i], s[i+1], ..., in that order
permutations_from(s, i) ==
    IF i > Len(s) THEN <<>>
    ELSE LET rest == permutations(RemoveAt(s, i))
         IN  [k \in 1..Len(rest) |-> <<s[i]>> \o rest[k]] \o permutations_from(s, i + 1)

\* itertools.permutations(s): every ordering of s, in lexicographic order of
\* the positions taken from s
permutations_rotations(s) ==
    [k \in 1..Len(s) |-> [j \in 1..Len(s) |-> s[((k + j - 2) % Len(s)) + 1]]]
permutations(s) ==
    IF Len(s) = 0 THEN << <<>> >> ELSE permutations_from(s, 1)

\* the orderings of the channel indices 1..c, enumerated once
PermTable == [c \in 1..Max2(MaxC, MatchC) |-> permutations([j \in 1..c |-> j])]

RECURSIVE min_scan(_, _, _)
min_scan(cs, k, best) ==
    IF k > Len(cs) THEN best
    ELSE min_scan(cs, k + 1, IF cs[k] < cs[best] THEN k ELSE best)

RECURSIVE min_scan_last(_, _, _)
min_scan_last(cs, k, best) ==
    IF k > Len(cs) THEN best
    ELSE min_scan_last(cs, k + 1, IF cs[k] <= cs[best] THEN k ELSE best)

\* Python's min(iterable): the position of the item it returns, which is the
\* first of the smallest items (a later item replaces the best only if it
\* compares strictly less)
py_min_last(cs) == min_scan_last(cs, 2, 1)
py_min_first_item(cs) == 1
py_min(cs) == min_scan(cs, 2, 1)

\* ------------------------------------------------------ complex numbers
\* loss_csa's comp_mul on one bin: (a,b)*(c,d) = (ac - bd, ad + bc)
\* the product with the conjugate of Y instead
comp_mul_conj(X, Y) == <<X[1] * Y[1] + X[2] * Y[2], X[2] * Y[1] - X[1] * Y[2]>>
comp_mul(X, Y) == <<X[1] * Y[1] - X[2] * Y[2], X[1] * Y[2] + X[2] * Y[1]>>

\* 1e-12, the clamp under the square root, in squared fixed-point units: it
\* is below the model's resolution
clamp_min == 0

\* abs_comp = sqrt(sum(X**2, -1).clamp(min=1e-12)), in fixed point
abs_comp(X) == SqrtTable[Max2(X[1] * X[1] + X[2] * X[2], clamp_min)]

\* abs_S * cos(phase_S - phase_X) of loss_mi_tpsa, in fixed point: the real
\* part of S * conj(X) over |X|; atan2(0, 0) = 0 gives phase 0 to a zero X
abs_cos(S, X) ==
    IF X = <<0, 0>> THEN S[1] * Scale
    ELSE ((S[1] * X[1] + S[2] * X[2]) * Scale * Scale) \div abs_comp(X)

\* the truncated phase-sensitive target of loss_mi_tpsa:
\* min(max(abs_S * cos(phase_S - phase_X), 0), gamma * abs_X)
spectrum(S, X, gamma) == Min2(Max2(abs_cos(S, X), 0), gamma * abs_comp(X))

\* ------------------------------------------------- phases and phasebook
\* 2*pi in the model's angle unit, the quarter turn
two_pi == 4

\* torch.atan2(im, re) of an axis-aligned complex number, in quarter turns:
\* a value in (-pi, pi]
atan2(X) ==
    CASE X[2] > 0 /\ X[1] = 0 -> 1
      [] X[2] < 0 /\ X[1] = 0 -> 0 - 1
      [] X[2] = 0 /\ X[1] < 0 -> 2
      [] OTHER -> 0

\* the circular distance of loss_ce_phase:
\* min((book - phase) % 2pi, (phase - book) % 2pi)
circ_dist(b, ph) == Min2((b - ph) % two_pi, (ph - b) % two_pi)

\* torch.argmin(..., dim=-1): the first book entry at the smallest distance
phase_ref_idx(book, ph) ==
    py_min([k \in 1..Len(book) |-> circ_dist(book[k], ph)])

\* -log(p.clamp(min=1e-36)) of a probability p = q/4, in thousandths
neg_log_milli(q) ==
    CASE q = 0 -> 82893
      [] q = 1 -> 1386
      [] q = 2 -> 693
      [] q = 3 -> 288
      [] OTHER -> 0

neg_log(q) == (neg_log_milli(q) * Scale) \div 1000

\* ------------------------------------------------------- the loss calls
Losses == {"loss_mi_msa", "loss_mi_tpsa", "loss_wa", "loss_ce_phase", "loss_csa"}
\* the losses with a reduction order L
DistanceLosses == {"loss_mi_tpsa", "loss_csa"}

\* input alphabets
Samples == {1, 2, 3}                          \* waveform samples
MaskVals == {1, 2}                            \* real mask values
SourceVals == {<<1, 0>>, <<0, 2>>}            \* true spectra
MixVals == {<<1, 0>>, <<0, -2>>}              \* mixture spectra
ComVals == {<<1, 0>>, <<0, 1>>}               \* complex estimates
ProbRows == {<<3, 1>>, <<0, 4>>}              \* phase probabilities, in quarters
PhaseVals == {0, 3}                           \* true phases, in quarter turns
PhaseBooks == {<<0, 2>>, <<1, 2>>}            \* phasebooks, in quarter turns
Orders == {0, 1, 2, 3}                        \* reduction orders L
Gammas == {1, 2}

EstVals(f) ==
    CASE f = "loss_wa" -> Samples
      [] f = "loss_ce_phase" -> ProbRows
      [] f = "loss_csa" -> ComVals
      [] OTHER -> MaskVals

TruVals(f, cplx) ==
    CASE f = "loss_wa" -> Samples
      [] f = "loss_ce_phase" /\ ~cplx -> PhaseVals
      [] OTHER -> SourceVals

MixOf(f) == IF f \in {"loss_wa", "loss_ce_phase"} THEN {<<0, 0>>} ELSE MixVals

\* numpy broadcasting of one dimension
Broadcastable(a, b) == a = b \/ a = 1 \/ b = 1
BroadcastDim(a, b) == IF a = 1 THEN b ELSE a
At(s, j) == IF Len(s) = 1 THEN s[1] ELSE s[j]

\* --------------------------------------------- the term of one ordering
\* The elementwise cost of one estimated channel against one true channel,
\* as each loss computes it inside torch.sum(...).

\* loss_wa: torch.abs(torch.stack(s) - _source_true)
loss_wa_elem(s, tru) == Abs(s - tru)

\* loss_mi_msa: (torch.stack(M) * _abs_X - _abs_S) ** 2
loss_mi_msa_elem(M, X, S) ==
    (M * abs_comp(X) - abs_comp(S)) * (M * abs_comp(X) - abs_comp(S))

\* the branch on the reduction order L of loss_mi_tpsa and loss_csa
reduction_branch_default(L) == IF L = 1 THEN "L1" ELSE "L2"
reduction_branch(L) ==
    IF L = 1 THEN "L1" ELSE IF L = 2 THEN "L2" ELSE "NotImplementedError"

\* loss_mi_tpsa: torch.abs(torch.stack(M) * _abs_X - _spectrum) for L = 1,
\* (torch.stack(M) * _abs_X - _spectrum) ** L for L = 2
loss_mi_tpsa_elem(M, X, S, gamma, L) ==
    LET d == M * abs_comp(X) - spectrum(S, X, gamma)
    IN  IF reduction_branch(L) = "L1" THEN Abs(d) ELSE d * d

\* loss_csa: abs_comp(torch.stack(s) - _sources) for L = 1 and its L-th power
\* for L = 2, where s orders source_pred = comp_mul(com_pred, mixture)
loss_csa_elem(com, X, S, L) ==
    LET sp == comp_mul(com, X)
        a == abs_comp(<<sp[1] - S[1], sp[2] - S[2]>>)
    IN  IF reduction_branch(L) = "L1" THEN a ELSE a * a

\* loss_ce_phase: -torch.log(torch.stack(p).gather(-1, _ref_idx)
\* .clamp(min=1e-36)), with _ref_idx the phasebook entry nearest the true
\* phase; a complex true phase is converted by atan2 first
loss_ce_phase_elem(p, tru, book, cplx) ==
    neg_log(p[phase_ref_idx(book, IF cplx THEN atan2(tru) ELSE tru)])

\* the elementwise cost of the call c
Elem(c, e, X, t) ==
    CASE c.fn = "loss_wa" -> loss_wa_elem(e, t)
      [] c.fn = "loss_mi_msa" -> loss_mi_msa_elem(e, X, t)
      [] c.fn = "loss_mi_tpsa" -> loss_mi_tpsa_elem(e, X, t, c.gamma, c.L)
      [] c.fn = "loss_csa" -> loss_csa_elem(e, X, t, c.L)
      [] OTHER -> loss_ce_phase_elem(e, t, c.book, c.cplx)

\* the generator expression inside min(...): torch.sum of the elementwise
\* costs of the stacked estimates s (one ordering of an example's channels)
\* against the example's truths.  Channel counts that differ broadcast when
\* one of them is 1; gather (loss_ce_phase) reads the channels its index has.
Term(c, s, X, tru) ==
    LET n == IF c.fn = "loss_ce_phase" THEN Len(tru)
             ELSE BroadcastDim(Len(s), Len(tru))
    IN  SeqSum([j \in 1..n |-> Elem(c, At(s, j), X, At(tru, j))])

\* torch.stack(s) for the ordering ord of the channels of est
Stack(est, ord) == [j \in 1..Len(ord) |-> est[ord[j]]]

\* the terms of an example, one per ordering, in the order
\* "for s in permutations(_source_pred)" yields them
Terms(c, e) ==
    LET ords == PermTable[Len(e.est)]
    IN  AsTuple([k \in 1..Len(ords) |->
                    Term(c, Stack(e.est, ords[k]), e.mix, e.tru)])

\* whether the term of an example can be computed: the subtraction
\* broadcasts, or gather's index has no more channels than its input
ChannelsFit(c) ==
    IF c.fn = "loss_ce_phase" THEN c.Ct <= c.Cp ELSE Broadcastable(c.Cp, c.Ct)

\* loss_mi_tpsa computes spectrum from sources and mixture before the loop:
\* their batch sizes must broadcast (the mixture has the mask's batch size)
PreLoopFits(c) == c.fn = "loss_mi_tpsa" => Broadcastable(c.Bt, c.Bp)

\* the number of examples zip(...) yields: that of its shortest argument
zip_len(c) ==
    IF c.fn = "loss_mi_tpsa" THEN Min2(c.Bp, BroadcastDim(c.Bt, c.Bp))
    ELSE Min2(c.Bp, c.Bt)

\* one step of Python's sum(): the running total plus the next item
sum_step_mean(total, n, item) == (total * n + item) \div (n + 1)
sum_step(total, n, item) == total + item

\* --------------------------------------------------------------- state
VARIABLES
    call,    \* the loss call: function, L, gamma, phasebook, tensor shapes
    pc,      \* "call", "iter", "item", "returned" or "raised"
    i,       \* the examples zip(...) has yielded
    acc,     \* the running total of sum(...)
    ex,      \* the example being reduced: its estimates, mixture and truths
    totals,  \* the example's terms, one per ordering
    best,    \* the position in totals of the term min(...) returned
    ret      \* the value returned, or the exception raised

lossVars == <<call, pc, i, acc, ex, totals, best, ret>>

VARIABLES
    net,        \* the network constructed: its class and layer_num
    mpc,        \* "built", "loop" or "done"
    mixture,    \* forward's mixture waveform
    mask,       \* forward's mask
    Shat,       \* the current complex estimate, Shat[c][k][t] = <<re, im>>
    Shatmag,    \* the magnitude computed before the loop
    done_layers,\* the layers applied
    fed,        \* the estimate each layer was given, in order
    made,       \* the estimate each layer returned, in order
    inner,      \* the last layer's shat, delta, corrected signals and tmp
    wave        \* the waveforms returned

misiVars == <<net, mpc, mixture, mask, Shat, Shatmag, done_layers, fed, made,
              inner, wave>>

VARIABLES
    spc,     \* "input", "transformed" or "inverted"
    x,       \* the waveform given to TrainableStftLayer
    X,       \* TrainableStftLayer's output
    y        \* TrainableIstftLayer's output for X

stftVars == <<spc, x, X, y>>

VARIABLES
    ctor,    \* the construction asked for: class, n_fft, and where from
    cpc,     \* "args", "call", "parser_error", "raised", "built",
             \* "forward_returned" or "forward_raised"
    obj,     \* the attributes __init__ has stored
    err      \* the error raised, "none" if none

buildVars == <<ctor, cpc, obj, err>>

VARIABLE
    shape    \* the sizes along TrainableMisiNetwork.forward: n_fft,
             \* waveform_length, spec_time, the inverse's samples, and the
             \* position "waveform", "frames", "samples", "reshaped", "raised"

vars == <<call, pc, i, acc, ex, totals, best, ret,
          net, mpc, mixture, mask, Shat, Shatmag, done_layers, fed, made,
          inner, wave, spc, x, X, y, ctor, cpc, obj, err, shape>>

NoExample == [est |-> <<>>, mix |-> <<0, 0>>, tru |-> <<>>]

\* the calls with batch sizes in bs and channel counts in cs
Calls(bs, cs) ==
    {c \in [fn : Losses, L : Orders, gamma : Gammas, book : PhaseBooks \cup {<<>>},
            cplx : BOOLEAN, Bp : bs, Bt : bs, Cp : cs, Ct : cs] :
        /\ c.fn \notin DistanceLosses => c.L = 1
        /\ c.fn # "loss_mi_tpsa" => c.gamma = 1
        /\ (c.fn = "loss_ce_phase") <=> (c.book # <<>>)
        /\ c.fn # "loss_ce_phase" => ~c.cplx}

NoCall == [fn |-> "none", L |-> 1, gamma |-> 1, book |-> <<>>, cplx |-> FALSE,
           Bp |-> 0, Bt |-> 0, Cp |-> 1, Ct |-> 1]
NoNet == [class |-> "none", layer_num |-> 0]
NoMask == [dims |-> 0, gains |-> <<>>]
NoInner == [shat |-> <<>>, delta |-> <<>>, corrected |-> <<>>, tmp |-> <<>>]

\* no network is in use
MisiIdle ==
    /\ net = NoNet /\ mpc = "none"
    /\ mixture = <<>> /\ mask = NoMask
    /\ Shat = <<>> /\ Shatmag = <<>>
    /\ done_layers = 0 /\ fed = <<>> /\ made = <<>>
    /\ inner = NoInner /\ wave = <<>>

\* no transform is in use
StftIdle == spc = "none" /\ x = <<>> /\ X = <<>> /\ y = <<>>

NoCtor == [class |-> "none", n_fft |-> 0, via |-> "none"]
NoObj == [n_fft |-> 0, hop_length |-> 0]
NoShape == [n_fft |-> 0, waveform_length |-> 0, spec_time |-> 0,
            samples |-> 0, at |-> "none"]

\* nothing is being constructed
BuildIdle == ctor = NoCtor /\ cpc = "none" /\ obj = NoObj /\ err = "none"

\* no lengths are being followed
ShapeIdle == shape = NoShape

LossIdle ==
    /\ pc = "call"
    /\ i = 0 /\ acc = 0
    /\ ex = NoExample /\ totals = <<>> /\ best = 0
    /\ ret = "none"

\* calls on batches of up to MaxB examples with up to MaxC channels
InitLoss ==
    call \in Calls(0..MaxB, 1..MaxC) /\ LossIdle /\ MisiIdle /\ StftIdle
    /\ BuildIdle /\ ShapeIdle

\* calls on one example with up to MatchC channels
InitMatch ==
    call \in Calls({1}, 1..MatchC) /\ LossIdle /\ MisiIdle /\ StftIdle
    /\ BuildIdle /\ ShapeIdle

\* the function's body up to the loop: the tensors computed before the
\* branch on L, then the branch
Enter ==
    /\ pc = "call"
    /\ IF ~PreLoopFits(call)
       THEN pc' = "raised" /\ ret' = "RuntimeError"
       ELSE IF call.fn \in DistanceLosses
               /\ reduction_branch(call.L) = "NotImplementedError"
       THEN pc' = "raised" /\ ret' = "NotImplementedError"
       ELSE pc' = "iter" /\ ret' = ret
    /\ UNCHANGED <<call, i, acc, ex, totals, best>>
    /\ UNCHANGED <<misiVars, stftVars, buildVars, shape>>

\* the examples a call may hold at position n; a truth batch of one example
\* that loss_mi_tpsa broadcast holds the same truths at every position
Examples(c, n, last) ==
    {e \in [est : [1..c.Cp -> EstVals(c.fn)], mix : MixOf(c.fn),
            tru : [1..c.Ct -> TruVals(c.fn, c.cplx)]] :
        (c.fn = "loss_mi_tpsa" /\ c.Bt = 1 /\ n > 0) => e.tru = last}

\* sum(...) asks the outer generator for its next item: zip yields the next
\* example and min(...) runs over the terms of its orderings
Iterate ==
    /\ pc = "iter"
    /\ i < zip_len(call)
    /\ IF ~ChannelsFit(call)
       THEN /\ pc' = "raised" /\ ret' = "RuntimeError"
            /\ UNCHANGED <<call, i, acc, ex, totals, best>>
       ELSE \E e \in Examples(call, i, ex.tru) :
            /\ ex' = e
            /\ totals' = Terms(call, e)
            /\ best' = py_min(totals')
            /\ pc' = "item"
            /\ UNCHANGED <<call, i, acc, ret>>
    /\ UNCHANGED <<misiVars, stftVars, buildVars, shape>>

\* sum(...) adds the item to its total and drops it; a truth batch that
\* loss_mi_tpsa broadcast keeps its one example
Add ==
    /\ pc = "item"
    /\ acc' = sum_step(acc, i, totals[best])
    /\ i' = i + 1
    /\ pc' = "iter"
    /\ ex' = IF call.fn = "loss_mi_tpsa" /\ call.Bt = 1
             THEN [NoExample EXCEPT !.tru = ex.tru] ELSE NoExample
    /\ totals' = <<>> /\ best' = 0
    /\ UNCHANGED <<call, ret>>
    /\ UNCHANGED <<misiVars, stftVars, buildVars, shape>>

\* zip is exhausted: sum returns its total
Return ==
    /\ pc = "iter"
    /\ i = zip_len(call)
    /\ pc' = "returned"
    /\ ret' = acc
    /\ UNCHANGED <<call, i, acc, ex, totals, best>>
    /\ UNCHANGED <<misiVars, stftVars, buildVars, shape>>

NextLoss == Enter \/ Iterate \/ Add \/ Return

SpecLoss == InitLoss /\ [][NextLoss]_vars
SpecMatch == InitMatch /\ [][NextLoss]_vars

\* ========================================================= the transforms
\* Angles are whole quarter turns: both transform sizes below divide 4.
cos_q(a) == CASE a % 4 = 0 -> 1 [] a % 4 = 2 -> -1 [] OTHER -> 0
sin_q(a) == CASE a % 4 = 1 -> 1 [] a % 4 = 3 -> -1 [] OTHER -> 0

\* --- torch.stft / torchaudio.functional.istft as MisiNetwork calls them,
\* for a network built with n_fft = 2, hop_length = 1, win_length = 2.
\* A spectrum is S[k][t] = <<re, im>> for bin k and frame t, both from 1.
misi_n_fft == 2
misi_hop_length == 1

\* torch.hann_window(2) = (1 - cos(2 pi n / 2)) / 2
hann_window_misi(n) == (1 - cos_q(2 * n)) \div 2

\* the waveform padded by n_fft / 2 reflected samples, p from 0
reflect_pad(w, p) ==
    CASE p = 0 -> w[2]
      [] p = Len(w) + 1 -> w[Len(w) - 1]
      [] OTHER -> w[p]

torch_stft(w) ==
    [k \in 1..(misi_n_fft \div 2 + 1) |->
        [t \in 1..(Len(w) \div misi_hop_length + 1) |->
            <<SeqSum([n \in 1..misi_n_fft |->
                  hann_window_misi(n - 1) * cos_q(2 * (k - 1) * (n - 1))
                  * reflect_pad(w, (t - 1) * misi_hop_length + n - 1)]),
              0 - SeqSum([n \in 1..misi_n_fft |->
                  hann_window_misi(n - 1) * sin_q(2 * (k - 1) * (n - 1))
                  * reflect_pad(w, (t - 1) * misi_hop_length + n - 1)])>>]]

\* n_fft times sample n of the inverse real transform of frame t: the
\* imaginary parts of the two bins do not enter it
irfft_scaled(S, t, n) == S[1][t][1] + cos_q(2 * n) * S[2][t][1]

\* n_fft times the waveform torchaudio's istft returns: windowed frames
\* overlap-added, divided by the summed squared window, n_fft / 2 samples
\* trimmed at the start
torchaudio_istft(S) ==
    LET frames == Len(S[1])
        covers(p, n) == p - n >= 0 /\ (p - n) % misi_hop_length = 0
                        /\ (p - n) \div misi_hop_length < frames
        added(p) == SeqSum([n \in 1..misi_n_fft |->
                        IF covers(p, n - 1)
                        THEN hann_window_misi(n - 1)
                             * irfft_scaled(S, (p - n + 1) \div misi_hop_length + 1,
                                            n - 1)
                        ELSE 0])
        envelope(p) == SeqSum([n \in 1..misi_n_fft |->
                        IF covers(p, n - 1)
                        THEN hann_window_misi(n - 1) * hann_window_misi(n - 1)
                        ELSE 0])
    IN  [j \in 1..(misi_hop_length * (frames - 1)) |->
            added(j - 1 + misi_n_fft \div 2)
            \div envelope(j - 1 + misi_n_fft \div 2)]

\* --- TrainableStftLayer / TrainableIstftLayer built with n_fft = 4
n_fft == 4
hop_length == n_fft \div 4
freq_bins == n_fft \div 2 + 1

\* twice torch.hann_window(4) = 1 - cos(2 pi n / 4)
hann_window(n) == 1 - cos_q(n)

\* _generate_dft_matrix: the cosine rows, then the sine rows
generate_dft_matrix(part, k, n) ==
    IF part = 1 THEN cos_q(k * n) ELSE sin_q(k * n)

\* twice the weight both layers copy into their convolutions
weight(part, k, n) == hann_window(n) * generate_dft_matrix(part, k, n)

\* the frames Conv1d makes of T samples
conv_frames(T) == (T + 2 * (2 * hop_length) - n_fft) \div hop_length + 1
\* the samples ConvTranspose1d makes of N frames
conv_transpose_length(N) == (N - 1) * hop_length - 2 * (2 * hop_length) + n_fft

\* the waveform padded by 2 * hop zeros on each side, p from 0
zero_pad(w, p) ==
    IF p - 2 * hop_length >= 0 /\ p - 2 * hop_length < Len(w)
    THEN w[p - 2 * hop_length + 1] ELSE 0

\* twice TrainableStftLayer.forward(w): bin k holds row k of the cosines
\* as its real part and row k of the sines as its imaginary part
stft_layer(w) ==
    [k \in 1..freq_bins |->
        [t \in 1..conv_frames(Len(w)) |->
            <<SeqSum([n \in 1..n_fft |-> weight(1, k - 1, n - 1)
                  * zero_pad(w, (t - 1) * hop_length + n - 1)]),
              SeqSum([n \in 1..n_fft |-> weight(2, k - 1, n - 1)
                  * zero_pad(w, (t - 1) * hop_length + n - 1)])>>]]

\* 2 * n_fft times TrainableIstftLayer.forward(S)
istft_layer(S) ==
    LET frames == Len(S[1])
        tap(p, t) == p - (t - 1) * hop_length
    IN  [j \in 1..conv_transpose_length(frames) |->
            SeqSum([t \in 1..frames |->
                LET n == tap(j - 1 + 2 * hop_length, t)
                IN  IF n < 0 \/ n >= n_fft THEN 0
                    ELSE SeqSum([k \in 1..freq_bins |->
                            weight(1, k - 1, n) * S[k][t][1]
                            + weight(2, k - 1, n) * S[k][t][2]])])]

\* ================================================================== MISI
\* One example per forward call (batch_size = 1), so row c of the stacked
\* (batch_size * n_channels) tensors is channel c.  Waveforms that come out
\* of an inverse transform are held multiplied by time_unit; the spectra of
\* TrainableMisiNetwork are held doubled throughout.
MaxLayers == 2     \* largest layer_num a network is built with
MisiC == 2         \* largest n_channels of a mask

Classes == {"MisiNetwork", "TrainableMisiNetwork"}
MixSamples == {0, 1, -2}
\* what a channel's mask holds on bin 1 and on the other bins
RealGains == {<<1, 1>>, <<-1, -1>>, <<2, 1>>}
ComplexGains == {<< <<0, 1>>, <<0, 1>> >>, << <<1, 0>>, <<0, 1>> >>}

\* waveform_length: 2 for MisiNetwork, 1 for TrainableMisiNetwork, where
\* every bin of every spectrum lies on the real or the imaginary axis
Mixtures(class) ==
    IF class = "MisiNetwork"
    THEN [1..2 -> MixSamples] ELSE [1..1 -> MixSamples]

\* a mask of 4 dimensions (real) or 5 (complex), the same in every frame
Masks(C) ==
    [dims : {4}, gains : [1..C -> RealGains]]
    \cup [dims : {5}, gains : [1..C -> ComplexGains]]

\* the mask with its zero imaginary part stacked on when it is real
mask_at(m, c, k) ==
    LET g == m.gains[c][IF k = 1 THEN 1 ELSE 2]
    IN  IF m.dims = 4 THEN <<g, 0>> ELSE g

stft(class, w) == IF class = "MisiNetwork" THEN torch_stft(w) ELSE stft_layer(w)
istft(class, S) ==
    IF class = "MisiNetwork" THEN torchaudio_istft(S) ELSE istft_layer(S)
time_unit(class) == IF class = "MisiNetwork" THEN misi_n_fft ELSE 2 * 2 * n_fft

\* Shat.norm(2, -1): the root of re^2 + im^2, rounded down
norm(v) ==
    CHOOSE r \in 0..(Abs(v[1]) + Abs(v[2])) :
        /\ r * r <= v[1] * v[1] + v[2] * v[2]
        /\ (r + 1) * (r + 1) > v[1] * v[1] + v[2] * v[2]

\* Shat and Shatmag before the loop
initial_Shat(class, m, w) ==
    LET Xw == stft(class, w)
    IN  [c \in 1..Len(m.gains) |->
            [k \in 1..Len(Xw) |->
                [t \in 1..Len(Xw[k]) |-> comp_mul(mask_at(m, c, k), Xw[k][t])]]]

magnitude(S) ==
    [c \in 1..Len(S) |->
        [k \in 1..Len(S[c]) |-> [t \in 1..Len(S[c][k]) |-> norm(S[c][k][t])]]]

\* range(layer_num): the passes of the loop
range_len_inclusive(n) == n + 1
range_len(n) == IF n < 0 THEN 0 ELSE n

\* torch.nn.functional.normalize(v, p=2): v / max(norm(v), eps); eps = 1e-12
\* lies below every non-zero norm the model holds
normalize_eps == 0
normalize_identity(v) == v
normalize(v) ==
    CASE norm(v) <= normalize_eps -> <<0, 0>>
      [] norm(v) > normalize_eps /\ (v[1] = 0 \/ v[2] = 0) ->
            <<v[1] \div norm(v), v[2] \div norm(v)>>

\* delta = mixture - sum(shat) / n_channels, held times unit * n_channels
misi_delta(unit, w, shat) ==
    [s \in 1..Len(w) |->
        unit * Len(shat) * w[s]
        - SeqSum([c \in 1..Len(shat) |-> shat[c][s]])]

\* shat + delta.repeat_interleave(n_channels, 0), times unit * n_channels
misi_corrected(shat, delta) ==
    [c \in 1..Len(shat) |->
        [s \in 1..Len(delta) |-> Len(shat) * shat[c][s] + delta[s]]]

\* MisiLayer.forward / TrainableMisiLayer.forward
misi_layer(class, S, Smag, w) ==
    LET shat == [c \in 1..Len(S) |-> istft(class, S[c])]
        delta == misi_delta(time_unit(class), w, shat)
        corrected == misi_corrected(shat, delta)
        tmp == [c \in 1..Len(S) |-> stft(class, corrected[c])]
    IN  [shat |-> shat, delta |-> delta, corrected |-> corrected, tmp |-> tmp,
         out |-> [c \in 1..Len(S) |->
                    [k \in 1..Len(S[c]) |->
                        [t \in 1..Len(S[c][k]) |->
                            LET phase == normalize(tmp[c][k][t])
                            IN  <<Smag[c][k][t] * phase[1],
                                  Smag[c][k][t] * phase[2]>>]]]]

LossUnused ==
    /\ call = NoCall /\ pc = "none"
    /\ i = 0 /\ acc = 0
    /\ ex = NoExample /\ totals = <<>> /\ best = 0
    /\ ret = "none"

\* a network after construction
InitMisi ==
    /\ net \in [class : Classes, layer_num : 0..MaxLayers]
    /\ mpc = "built"
    /\ mixture = <<>> /\ mask = NoMask
    /\ Shat = <<>> /\ Shatmag = <<>>
    /\ done_layers = 0 /\ fed = <<>> /\ made = <<>>
    /\ inner = NoInner /\ wave = <<>>
    /\ LossUnused /\ StftIdle /\ BuildIdle /\ ShapeIdle

\* forward up to the loop
forward_enter(class) ==
    /\ net.class = class
    /\ mpc = "built"
    /\ \E C \in 1..MisiC :
        \E m \in Masks(C), w \in Mixtures(class) :
            \E S \in {initial_Shat(class, m, w)} :
                /\ mask' = m
                /\ mixture' = w
                /\ Shat' = S
                /\ Shatmag' = magnitude(S)
    /\ mpc' = "loop"
    /\ UNCHANGED <<net, done_layers, fed, made, inner, wave>>
    /\ UNCHANGED <<lossVars, stftVars, buildVars, shape>>

\* one pass of the loop
forward_layer(class) ==
    /\ net.class = class
    /\ mpc = "loop"
    /\ done_layers < range_len(net.layer_num)
    /\ \E r \in {misi_layer(class, Shat, Shatmag, mixture)} :
           /\ Shat' = r.out
           /\ fed' = Append(fed, Shat)
           /\ made' = Append(made, r.out)
           /\ inner' = [shat |-> r.shat, delta |-> r.delta,
                        corrected |-> r.corrected, tmp |-> r.tmp]
    /\ done_layers' = done_layers + 1
    /\ UNCHANGED <<net, mpc, mixture, mask, Shatmag, wave>>
    /\ UNCHANGED <<lossVars, stftVars, buildVars, shape>>

\* the loop is over: the inverse transform of Shat is returned
forward_return(class) ==
    /\ net.class = class
    /\ mpc = "loop"
    /\ done_layers >= range_len(net.layer_num)
    /\ wave' = [c \in 1..Len(Shat) |-> istft(class, Shat[c])]
    /\ mpc' = "done"
    /\ UNCHANGED <<net, mixture, mask, Shat, Shatmag, done_layers, fed, made,
                   inner>>
    /\ UNCHANGED <<lossVars, stftVars, buildVars, shape>>

MisiNetwork_forward == forward_enter("MisiNetwork")
MisiLayer_forward == forward_layer("MisiNetwork")
MisiNetwork_return == forward_return("MisiNetwork")
TrainableMisiNetwork_forward == forward_enter("TrainableMisiNetwork")
TrainableMisiLayer_forward == forward_layer("TrainableMisiNetwork")
TrainableMisiNetwork_return == forward_return("TrainableMisiNetwork")

NextMisi ==
    \/ MisiNetwork_forward
    \/ MisiLayer_forward
    \/ MisiNetwork_return
    \/ TrainableMisiNetwork_forward
    \/ TrainableMisiLayer_forward
    \/ TrainableMisiNetwork_return

SpecMisi == InitMisi /\ [][NextMisi]_vars

\* ============================================= the trainable transform pair
MaxT == 8          \* longest waveform given to TrainableStftLayer
StftSamples == {-1, 0, 1}

\* a waveform whose length is a positive multiple of hop_length
InitStft ==
    /\ \E T \in 1..MaxT :
        /\ T % hop_length = 0
        /\ x \in [1..T -> StftSamples]
    /\ spc = "input"
    /\ X = <<>> /\ y = <<>>
    /\ LossUnused /\ MisiIdle /\ BuildIdle /\ ShapeIdle

\* X = TrainableStftLayer(n_fft)(x), held doubled
TrainableStftLayer_forward ==
    /\ spc = "input"
    /\ X' = stft_layer(x)
    /\ spc' = "transformed"
    /\ UNCHANGED <<x, y>>
    /\ UNCHANGED <<lossVars, misiVars, buildVars, shape>>

\* y = TrainableIstftLayer(n_fft)(X), held times 4 * n_fft
TrainableIstftLayer_forward ==
    /\ spc = "transformed"
    /\ y' = istft_layer(X)
    /\ spc' = "inverted"
    /\ UNCHANGED <<x, X>>
    /\ UNCHANGED <<lossVars, misiVars, buildVars, shape>>

NextStft == TrainableStftLayer_forward \/ TrainableIstftLayer_forward

SpecStft == InitStft /\ [][NextStft]_vars

\* ============================================================ construction
\* The constructors of submodels.py, called with an n_fft that a script's
\* validate_feature_argument has passed or that a caller gives directly.
\* MisiLayer and MisiNetwork take hop_length as an argument; the scripts
\* give n_fft // 4, and so does every caller here.
MaxNfft == 9       \* n_fft ranges over -MaxNfft..MaxNfft
Components == {"MisiLayer", "MisiNetwork", "TrainableStftLayer",
               "TrainableIstftLayer", "TrainableMisiNetwork"}
Entries == {"script", "direct"}

\* torch.nn.Conv1d / ConvTranspose1d with kernel_size n and n + 2 channels,
\* then the copy of the 2 * (n // 2 + 1) rows of the weight into it: the
\* set of outcomes.  A negative kernel size is a tensor of negative
\* dimension; with an odd n the weight has n + 1 rows for n + 2 channels;
\* whether an empty kernel is accepted depends on the library version.
conv_init(n) ==
    IF n < 0 THEN {"RuntimeError"}
    ELSE IF n = 0 THEN {"built", "RuntimeError"}
    ELSE IF 2 * (n \div 2 + 1) # n + 2 THEN {"RuntimeError"}
    ELSE {"built"}

\* ceil((n_fft - hop_length) / hop_length)
pad_windows_init(n) ==
    IF n \div 4 = 0 THEN {"ZeroDivisionError"} ELSE {"built"}

\* b after a: the first error ends the constructor
then_init(as, bs) == {IF a = "built" THEN b ELSE a : a \in as, b \in bs}

\* the outcomes of class(n)
init_outcomes(class, n) ==
    CASE class \in {"MisiLayer", "MisiNetwork"} -> {"built"}
      [] class = "TrainableStftLayer" -> conv_init(n)
      [] class = "TrainableIstftLayer" ->
            then_init(pad_windows_init(n), conv_init(n))
      [] class = "TrainableMisiNetwork" ->
            then_init(conv_init(n),
                      then_init(pad_windows_init(n), conv_init(n)))

InitBuild ==
    /\ ctor \in [class : Components, n_fft : -MaxNfft..MaxNfft, via : Entries]
    /\ cpc = IF ctor.via = "script" THEN "args" ELSE "call"
    /\ obj = NoObj /\ err = "none" /\ ShapeIdle
    /\ LossUnused /\ MisiIdle /\ StftIdle

\* the script's check of --n-fft before anything is constructed
validate_feature_argument ==
    /\ cpc = "args"
    /\ IF ctor.n_fft <= 0
       THEN cpc' = "parser_error" /\ err' = "parser.error"
       ELSE cpc' = "call" /\ err' = err
    /\ UNCHANGED <<ctor, obj>>
    /\ UNCHANGED <<lossVars, misiVars, stftVars, shape>>

\* class(n_fft): the attributes stored, or the error raised
init(class) ==
    /\ cpc = "call"
    /\ ctor.class = class
    /\ \E o \in init_outcomes(class, ctor.n_fft) :
        IF o = "built"
        THEN /\ cpc' = "built"
             /\ obj' = [n_fft |-> ctor.n_fft, hop_length |-> ctor.n_fft \div 4]
             /\ err' = err
        ELSE /\ cpc' = "raised"
             /\ err' = o
             /\ obj' = obj
    /\ UNCHANGED ctor
    /\ UNCHANGED <<lossVars, misiVars, stftVars, shape>>

MisiLayer_init == init("MisiLayer")
MisiNetwork_init == init("MisiNetwork")
TrainableStftLayer_init == init("TrainableStftLayer")
TrainableIstftLayer_init == init("TrainableIstftLayer")
TrainableMisiNetwork_init == init("TrainableMisiNetwork")

\* the first forward of a constructed object on an input long enough for
\* its n_fft: torch.stft, torchaudio's istft and the convolutions refuse a
\* frame size or a stride that is not positive
first_forward ==
    /\ cpc = "built"
    /\ IF obj.n_fft > 0 /\ obj.hop_length > 0
       THEN cpc' = "forward_returned" /\ err' = err
       ELSE cpc' = "forward_raised" /\ err' = "RuntimeError"
    /\ UNCHANGED <<ctor, obj>>
    /\ UNCHANGED <<lossVars, misiVars, stftVars, shape>>

NextBuild ==
    \/ validate_feature_argument
    \/ MisiLayer_init
    \/ MisiNetwork_init
    \/ TrainableStftLayer_init
    \/ TrainableIstftLayer_init
    \/ TrainableMisiNetwork_init
    \/ first_forward

SpecBuild == InitBuild /\ [][NextBuild]_vars

\* ====================================================== tensor lengths
\* The lengths along TrainableMisiNetwork.forward for a network built with
\* an n_fft that 4 divides, on a mixture of any length.
MaxHop == 4        \* n_fft is 4, 8, ..., 4 * MaxHop
MaxLen == 12       \* longest mixture

\* the output length of torch.nn.Conv1d (dilation 1)
conv1d_length(T, kernel_size, stride, padding) ==
    (T + 2 * padding - (kernel_size - 1) - 1) \div stride + 1

\* ConvTranspose1d without the padding taken off
conv_transpose1d_length_unpadded(N, kernel_size, stride, padding) ==
    (N - 1) * stride + (kernel_size - 1) + 1

\* the output length of torch.nn.ConvTranspose1d (dilation 1, no output
\* padding)
conv_transpose1d_length(N, kernel_size, stride, padding) ==
    (N - 1) * stride - 2 * padding + (kernel_size - 1) + 1

\* spec_time: the frames TrainableStftLayer(n) makes of T samples
stft_layer_length(n, T) == conv1d_length(T, n, n \div 4, (n \div 4) * 2)

\* the samples TrainableIstftLayer(n) makes of N frames
istft_layer_length(n, N) == conv_transpose1d_length(N, n, n \div 4, (n \div 4) * 2)

InitShape ==
    /\ \E h \in 1..MaxHop, T \in 1..MaxLen :
        shape = [n_fft |-> 4 * h, waveform_length |-> T, spec_time |-> 0,
                 samples |-> 0, at |-> "waveform"]
    /\ LossUnused /\ MisiIdle /\ StftIdle /\ BuildIdle

\* self.stft_layer(mixture.unsqueeze(1))
TrainableStftLayer_length ==
    /\ shape.at = "waveform"
    /\ shape' = [shape EXCEPT
                    !.spec_time = stft_layer_length(shape.n_fft,
                                                    shape.waveform_length),
                    !.at = "frames"]
    /\ UNCHANGED <<lossVars, misiVars, stftVars, buildVars>>

\* self.istft_layer(Shat)
TrainableIstftLayer_length ==
    /\ shape.at = "frames"
    /\ shape' = [shape EXCEPT
                    !.samples = istft_layer_length(shape.n_fft, shape.spec_time),
                    !.at = "samples"]
    /\ UNCHANGED <<lossVars, misiVars, stftVars, buildVars>>

\* .reshape(batch_size, n_channels, waveform_length) of batch_size *
\* n_channels rows of samples: the element counts must agree
reshape ==
    /\ shape.at = "samples"
    /\ shape' = [shape EXCEPT
                    !.at = IF shape.samples = shape.waveform_length
                           THEN "reshaped" ELSE "raised"]
    /\ UNCHANGED <<lossVars, misiVars, stftVars, buildVars>>

NextShape == TrainableStftLayer_length \/ TrainableIstftLayer_length \/ reshape

SpecShape == InitShape /\ [][NextShape]_vars

\* ==================================================== the complex product
\* The two callers of comp_mul side by side: a call of loss_csa, or the
\* forward of a network.
InitComplex ==
    \/ InitLoss /\ call.fn = "loss_csa"
    \/ InitMisi

NextComplex == NextLoss \/ NextMisi

SpecComplex == InitComplex /\ [][NextComplex]_vars

\* ============================================================= properties
\* What the claims speak of, defined apart from the operators above.

\* the bijections of the channel indices 1..n
BijTable ==
    [n \in 1..Max2(MaxC, MatchC) |->
        {f \in [1..n -> 1..n] : \A a, b \in 1..n : a # b => f[a] # f[b]}]

RECURSIVE SumOver(_, _)
\* the sum of f[j] over the n first indices
SumOver(f, n) == IF n = 0 THEN 0 ELSE f[n] + SumOver(f, n - 1)

\* the total cost of the assignment f (truth j is matched with estimate
\* f[j]): the sum over the channels of the elementwise costs
AssignTotal(c, e, f) ==
    SumOver([j \in 1..Len(e.tru) |-> Elem(c, e.est[f[j]], e.mix, e.tru[j])],
            Len(e.tru))

\* the smallest total cost over the assignments of an example
OwnMin(c, e) ==
    CHOOSE m \in {AssignTotal(c, e, f) : f \in BijTable[Len(e.tru)]} :
        \A f \in BijTable[Len(e.tru)] : m <= AssignTotal(c, e, f)

\* the loss of one example as the code computes it
ExampleLoss(c, e) == CHOOSE v \in {ts[py_min(ts)] : ts \in {Terms(c, e)}} : TRUE

\* an example with its estimates reordered by f, and with its truths too
ReorderEst(e, f) == [e EXCEPT !.est = [j \in 1..Len(e.est) |-> e.est[f[j]]]]
ReorderBoth(e, f) ==
    [e EXCEPT !.est = [j \in 1..Len(e.est) |-> e.est[f[j]]],
              !.tru = [j \in 1..Len(e.tru) |-> e.tru[f[j]]]]

\* the bijections that swap two indices
Swaps(n) ==
    {f \in BijTable[n] : Cardinality({j \in 1..n : f[j] # j}) = 2}

\* lexicographic order of two orderings
LexLess(p, q) ==
    \E k \in 1..Len(p) : p[k] < q[k] /\ \A j \in 1..(k - 1) : p[j] = q[j]

\* a loss has reduced an example whose estimates and truths have the same
\* channel count
Reduced == pc = "item" /\ call.Cp = call.Ct

\* C1: for one example with C estimated and C true channels, every loss
\* evaluates the total cost of each of the C! orderings of the estimates
\* against the truths in their fixed order (the sum over the channels of the
\* elementwise costs), and the term it adds is the minimum of these totals:
\* at most the total of every assignment and equal to that of one.
MinOverAllOrderings ==
    Reduced =>
        /\ Len(totals) = Cardinality(BijTable[call.Cp])
        /\ LET ords == PermTable[call.Cp]
           IN  /\ {ords[k] : k \in 1..Len(totals)} = BijTable[call.Cp]
               /\ \A k \in 1..Len(totals) :
                      totals[k] = AssignTotal(call, ex, ords[k])
        /\ \A f \in BijTable[call.Cp] : totals[best] <= AssignTotal(call, ex, f)
        /\ \E f \in BijTable[call.Cp] : totals[best] = AssignTotal(call, ex, f)

\* C1 witness: a three-channel example of loss_csa whose minimum is below
\* the total of the estimates as given and is reached by a cyclic ordering
MinOverAllOrderingsWitness ==
    /\ Reduced
    /\ call.fn = "loss_csa" /\ call.Cp = 3
    /\ totals[best] < totals[1]
    /\ PermTable[3][best] = <<2, 3, 1>>

\* C2: the loss of a batch is the sum (not the mean) of each example's own
\* minimum over its orderings: every example adds its own minimum to the
\* total, whatever the total and the other examples are, which is at most
\* its total under any ordering one might fix for the whole batch; the
\* value returned is that total, and with equal batch sizes every example
\* has been added.
BatchSumOfOwnMinima ==
    [][/\ (pc = "item" /\ pc' = "iter" /\ call.Cp = call.Ct) =>
              /\ acc' = acc + OwnMin(call, ex)
              /\ \A f \in BijTable[call.Cp] : acc' <= acc + AssignTotal(call, ex, f)
              /\ i' = i + 1
       /\ (pc = "iter" /\ pc' = "returned") =>
              /\ ret' = acc
              /\ call.Bp = call.Bt => i = call.Bp]_vars

\* C2 witness: a second example is added to a total that is not zero, and
\* its own minimum is below its total in the order given
BatchSumWitness ==
    /\ pc = "item" /\ call.Cp = call.Ct /\ call.Cp = 2
    /\ i = 1 /\ acc > 0
    /\ 0 < totals[best] /\ totals[best] < totals[1]

\* C3: reordering the estimated channels of an example by any permutation
\* leaves its loss unchanged, and so does swapping two true channels
\* together with the estimated channels at the same positions.
LossSymmetry ==
    Reduced =>
        /\ \A e \in {ReorderEst(ex, f) : f \in BijTable[call.Cp]} :
               ExampleLoss(call, e) = totals[best]
        /\ \A e \in {ReorderBoth(ex, f) : f \in Swaps(call.Cp)} :
               ExampleLoss(call, e) = totals[best]

\* C3 witness: a three-channel example of loss_ce_phase whose total depends
\* on the ordering
LossSymmetryWitness ==
    /\ Reduced
    /\ call.fn = "loss_ce_phase" /\ call.Cp = 3
    /\ \E k \in 1..Len(totals) : totals[k] > totals[best]

\* the estimates are the truths in another order (loss_wa: a pair costs 0
\* when it matches and more otherwise)
IsReordering(e) ==
    \E f \in BijTable[Len(e.tru)] : \A j \in 1..Len(e.tru) : e.est[f[j]] = e.tru[j]

\* C4: when the estimates of an example are a reordering of its truths,
\* loss_wa's minimum is 0 and the ordering min(...) settles on matches every
\* truth with an equal estimate: for truths [1,2,3] and estimates [3,1,2] it
\* is estimate 0 -> truth 2, 1 -> truth 0, 2 -> truth 1 (counting from 0).
\* For every loss, orderings are enumerated in lexicographic order and, of
\* several orderings at the minimum, the first enumerated is the one chosen.
PermutationRecovery ==
    Reduced =>
        LET ords == PermTable[call.Cp]
        IN  /\ (call.fn = "loss_wa" /\ IsReordering(ex)) =>
                   /\ totals[best] = 0
                   /\ \A j \in 1..call.Cp : ex.est[ords[best][j]] = ex.tru[j]
            /\ (call.fn = "loss_wa" /\ ex.tru = <<1, 2, 3>> /\ ex.est = <<3, 1, 2>>) =>
                   \* truth position j (from 1) takes estimate ords[best][j]
                   ords[best] = <<2, 3, 1>>
            /\ \A k \in 1..(Len(ords) - 1) : LexLess(ords[k], ords[k + 1])
            /\ \A k \in 1..Len(totals) :
                   /\ totals[best] <= totals[k]
                   /\ k < best => totals[best] < totals[k]

\* C4 witness: truths [1,2,3] with estimates [3,1,2]
PermutationRecoveryWitness ==
    /\ Reduced /\ call.fn = "loss_wa"
    /\ ex.tru = <<1, 2, 3>> /\ ex.est = <<3, 1, 2>>
    /\ totals[best] = 0

\* the estimate the loop starts from, computed from forward's arguments
StartShat == initial_Shat(net.class, mask, mixture)

\* the bins of a channel's spectrum
Bins(S) == {<<c, k, t>> : c \in 1..Len(S), k \in 1..Len(S[1]),
                          t \in 1..Len(S[1][1])}

\* C5: when forward returns, exactly layer_num layers have run, the first
\* on the masked transform of the mixture and each later one on the output
\* of the one before, all with forward's mixture, and the waveform returned
\* is the inverse transform of the last output -- of the masked transform
\* itself when layer_num is 0.  Both networks.
StepsInSequence ==
    mpc = "done" =>
        /\ Len(fed) = net.layer_num
        /\ Len(made) = net.layer_num
        /\ \A j \in 1..Len(fed) :
            /\ fed[j] = IF j = 1 THEN StartShat ELSE made[j - 1]
            /\ made[j] = misi_layer(net.class, fed[j], Shatmag, mixture).out
        /\ LET last == IF net.layer_num = 0 THEN StartShat
                       ELSE made[net.layer_num]
           IN  wave = [c \in 1..Len(last) |-> istft(net.class, last[c])]

\* C5 witness: a network of two layers has returned, and each layer changed
\* the estimate it was given
StepsInSequenceWitness ==
    /\ mpc = "done"
    /\ net.layer_num = 2
    /\ Len(fed) = 2
    /\ made[1] # fed[1]
    /\ made[2] # fed[2]

\* C6 as stated: Shatmag is the magnitude of the masked transform from the
\* loop's start to forward's return, and the output of every layer has
\* magnitude Shatmag in every bin, whatever tmp is there.
MagnitudeInvariance ==
    mpc \in {"loop", "done"} =>
        /\ Shatmag = magnitude(StartShat)
        /\ \A j \in 1..Len(made) : magnitude(made[j]) = Shatmag

\* C6 amended: Shatmag is the magnitude of the masked transform from the
\* loop's start to forward's return; the output of a layer has magnitude
\* Shatmag in every bin where the norm of tmp reaches the normalization
\* floor, and is zero in every bin where tmp is zero.
MagnitudeInvarianceAboveFloor ==
    mpc \in {"loop", "done"} =>
        /\ Shatmag = magnitude(StartShat)
        /\ done_layers >= 1 =>
            \A b \in Bins(Shatmag) :
                LET out == made[Len(made)][b[1]][b[2]][b[3]]
                    tmp == inner.tmp[b[1]][b[2]][b[3]]
                IN  IF norm(tmp) > normalize_eps
                    THEN norm(out) = Shatmag[b[1]][b[2]][b[3]]
                    ELSE out = <<0, 0>>

\* C6 witness: a layer has run and met a bin where tmp and Shatmag are not
\* zero, and a bin where tmp is zero and Shatmag is not
MagnitudeInvarianceWitness ==
    /\ mpc = "loop"
    /\ done_layers >= 1
    /\ \E b \in Bins(Shatmag) :
        /\ norm(inner.tmp[b[1]][b[2]][b[3]]) > normalize_eps
        /\ Shatmag[b[1]][b[2]][b[3]] > 0
    /\ \E b \in Bins(Shatmag) :
        /\ inner.tmp[b[1]][b[2]][b[3]] = <<0, 0>>
        /\ Shatmag[b[1]][b[2]][b[3]] > 0

\* C7 as stated: in every layer and at every sample the corrected channel
\* signals shat_c + delta sum to the mixture (both sides held multiplied by
\* time_unit * n_channels).
ChannelsSumToMixture ==
    done_layers >= 1 =>
        \A s \in 1..Len(mixture) :
            SeqSum([c \in 1..Len(inner.corrected) |-> inner.corrected[c][s]])
            = time_unit(net.class) * Len(inner.corrected) * mixture[s]

\* C8 as stated: TrainableIstftLayer applied to TrainableStftLayer's output
\* gives back the waveform at every sample that lies n_fft - 1 samples or
\* more from both ends (y is held multiplied by 4 * n_fft).
RoundTrip ==
    spc = "inverted" =>
        \A j \in n_fft..(Len(x) - n_fft + 1) : y[j] = 4 * n_fft * x[j]

DimensionMismatchRaises ==
    (/\ call.Bp # call.Bt \/ call.Cp # call.Ct
     /\ call.Bp > 0 /\ call.Bt > 0) => pc # "returned"

\* C11: a component asked for with n_fft <= 0, or with an n_fft that 4 does
\* not divide, is never constructed: the request ends in an error before
\* any object exists, so no forward of such an object is ever reached.
InvalidConstructionFailsFast ==
    (ctor.class \in Components /\ (ctor.n_fft <= 0 \/ ctor.n_fft % 4 # 0)) =>
        cpc \notin {"built", "forward_returned", "forward_raised"}

\* (a, b) * (c, d) = (ac - bd, ad + bc)
ProductRule(p, q) == <<p[1] * q[1] - p[2] * q[2], p[1] * q[2] + p[2] * q[1]>>

\* the cost loss_csa gives to the residual pred - S
ResidualCost(pred, S, L) ==
    LET a == abs_comp(<<pred[1] - S[1], pred[2] - S[2]>>)
    IN  IF L = 1 THEN a ELSE a * a

\* the estimate forward started from
FirstShat == IF done_layers = 0 THEN Shat ELSE fed[1]

\* the mask value forward was given for bin k of channel c
MaskGain(c, k) == mask.gains[c][IF k = 1 THEN 1 ELSE 2]

\* C12: the product of loss_csa and of the networks follows
\* (a, b) * (c, d) = (ac - bd, ad + bc).  In loss_csa the total of every
\* ordering is the cost of the residuals product - source, and with the
\* identity (1, 0) on every channel the residual is mixture - source.  In
\* forward every bin of the first estimate is the product of its mask value
\* and the mixture's bin; the identity gives the mixture's bin itself, and
\* a real mask multiplies the real and the imaginary part by its value.
ComplexProduct ==
    /\ (call.fn = "loss_csa" /\ Reduced) =>
          LET ords == PermTable[call.Cp]
              C == call.Cp
          IN  /\ \A k \in 1..Len(totals) :
                    totals[k] = SumOver([j \in 1..C |->
                        ResidualCost(ProductRule(ex.est[ords[k][j]], ex.mix),
                                     ex.tru[j], call.L)], C)
              /\ (\A j \in 1..C : ex.est[j] = <<1, 0>>) =>
                    \A k \in 1..Len(totals) :
                        totals[k] = SumOver([j \in 1..C |->
                            ResidualCost(ex.mix, ex.tru[j], call.L)], C)
    /\ mpc \in {"loop", "done"} =>
          LET Xw == stft(net.class, mixture)
          IN  \A b \in Bins(FirstShat) :
                LET g == MaskGain(b[1], b[2])
                    Xb == Xw[b[2]][b[3]]
                    S == FirstShat[b[1]][b[2]][b[3]]
                IN  /\ mask.dims = 4 => S = <<g * Xb[1], g * Xb[2]>>
                    /\ mask.dims = 5 => S = ProductRule(g, Xb)
                    /\ g = (IF mask.dims = 4 THEN 1 ELSE <<1, 0>>) => S = Xb

\* C12 witness: loss_csa has reduced a two-channel example whose first
\* estimate is the identity and whose second is i, on the mixture -2i
ComplexProductWitness ==
    /\ call.fn = "loss_csa" /\ Reduced /\ call.Cp = 2
    /\ ex.est = << <<1, 0>>, <<0, 1>> >>
    /\ ex.mix = <<0, -2>>
    /\ ex.tru = << <<1, 0>>, <<0, 2>> >>
    /\ call.L = 2
    /\ totals[1] # totals[2]

\* C13: for an n_fft that 4 divides and a waveform whose length T is a
\* positive multiple of hop = n_fft // 4, TrainableStftLayer makes
\* floor((T + 4 * hop - n_fft) / hop) + 1 = T / hop + 1 frames, of which
\* TrainableIstftLayer makes (N - 1) * hop - 4 * hop + n_fft = T samples, so
\* the reshape to (batch, channels, waveform_length) never fails.
LengthPreserved ==
    LET hop == shape.n_fft \div 4
        T == shape.waveform_length
        N == shape.spec_time
    IN  (/\ shape.at # "none"
         /\ shape.n_fft % 4 = 0
         /\ T > 0 /\ T % hop = 0) =>
            /\ shape.at # "waveform" =>
                  /\ N = (T + 4 * hop - shape.n_fft) \div hop + 1
                  /\ N = T \div hop + 1
            /\ shape.at \in {"samples", "reshaped", "raised"} =>
                  /\ shape.samples = (N - 1) * hop - 4 * hop + shape.n_fft
                  /\ shape.samples = T
            /\ shape.at # "raised"

\* C13 witness: 6 samples through the pair built with n_fft = 8 are 4
\* frames, then 6 samples again, and the reshape is done
LengthPreservedWitness ==
    /\ shape.at = "reshaped"
    /\ shape.n_fft = 8 /\ shape.waveform_length = 6
    /\ shape.spec_time = 4 /\ shape.samples = 6

====
